---- MODULE Spec2Model ----
(***************************************************************************)
(* Model of generate_preview_script.js: fetchRepositoryNames (paginated    *)
(* listing with owner/name filter), removeDirectory, processRepository     *)
(* (one page context per repository) and main (directory setup, browser    *)
(* launch, capture loop, teardown).                                        *)
(*                                                                         *)
(* The network, the filesystem and the browser are the environment: every  *)
(* awaited call picks its outcome (value returned or exception thrown)     *)
(* with \E at the step where the code awaits it.                           *)
(***************************************************************************)
EXTENDS Integers, Sequences, FiniteSets, TLC

(* ------------------------------ bounds -------------------------------- *)
MaxPages == 2        \* listing pages that may carry a "next" marker + 1
MaxRecs == 2         \* records on one listing page

(* ---------------------------- configuration --------------------------- *)
TARGET_ORG == "DapaLMS1"
CATALOG_NAME == "Catalog_of_Repos"

(* path.join(OUTPUT_DIR, `${repoName}.png`), relative to OUTPUT_DIR *)
outputPath(repoName) == repoName \o ".png"

(* ------------------------ environment: listing ------------------------ *)
Rec(o, n) == [owner |-> o, name |-> n]

(* the repositories of the target owner that the listing can serve *)
OwnRecords ==
    { Rec(TARGET_ORG, "A"), Rec(TARGET_ORG, "B"), Rec(TARGET_ORG, CATALOG_NAME) }

(* the same with repositories of other owners the token's user can access *)
Records == OwnRecords \cup { Rec("dapalms1", "C"), Rec("octocat", "A") }

Range(s) == { s[k] : k \in 1..Len(s) }

(* sequences without repetition, of length at most n, over the set S *)
RECURSIVE DistinctSeqs(_, _)
DistinctSeqs(S, n) ==
    IF n = 0 THEN { <<>> }
    ELSE LET shorter == DistinctSeqs(S, n - 1)
         IN  shorter \cup
             { Append(q[1], q[2]) :
                 q \in { p \in shorter \X S : Len(p[1]) = n - 1 /\ p[2] \notin Range(p[1]) } }

(* response.headers.get('link'): null, or the rel markers of the header *)
NoLink == [present |-> FALSE, rels |-> <<>>]
Link(rels) == [present |-> TRUE, rels |-> rels]
LinkHeaders == { NoLink, Link(<<"prev", "first">>), Link(<<"next", "last">>) }

(* variant: any link header counts as a continuation *)
HasNextMarker_anyLink(linkHeader) ==
    linkHeader.present

(* linkHeader && linkHeader.includes('rel="next"') *)
HasNextMarker(linkHeader) ==
    linkHeader.present /\ \E k \in 1..Len(linkHeader.rels) : linkHeader.rels[k] = "next"

(* what one `await fetch(url)` and the reading of its response can produce: *)
(*   thrown  - fetch itself rejects (network error)                        *)
(*   ok      - response.ok                                                 *)
(*   json    - "invalid": response.json() rejects; "object": the body is   *)
(*             JSON but no array, so data.filter throws; "array": records  *)
Resp(thrown, ok, json, data, link) ==
    [thrown |-> thrown, ok |-> ok, json |-> json, data |-> data, link |-> link]

(* the responses possible for page p when the endpoint lists the records   *)
(* `recs`, each at most once; the last page of the bound carries no "next" *)
(* marker                                                                  *)
Responses(p, recs) ==
    LET links == IF p < MaxPages THEN LinkHeaders
                 ELSE { l \in LinkHeaders : ~HasNextMarker(l) }
    IN  { Resp(TRUE, FALSE, "invalid", <<>>, NoLink) }
        \cup { Resp(FALSE, FALSE, "object", <<>>, l) : l \in links }
        \cup { Resp(FALSE, TRUE, j, <<>>, l) : j \in {"invalid", "object"}, l \in links }
        \cup { Resp(FALSE, TRUE, "array", d, l) :
                 d \in DistinctSeqs(recs, MaxRecs), l \in links }

(* ----------------------- environment: filesystem ---------------------- *)
(* files a prior run may have left in OUTPUT_DIR *)
PriorFiles == { outputPath("A"), outputPath("Retired") }

(* process.env.ORG_PAT_TOKEN: unset, set to the empty string, or a token *)
Tokens == { <<>>, <<"">>, <<"ghp_token">> }

(* !token *)
Falsy(t) == t = <<>> \/ t[1] = ""

(* -------------------------------- state ------------------------------- *)
VARIABLES
    token,          \* process.env.ORG_PAT_TOKEN
    remote,         \* environment: the repositories the listing endpoint serves
    pc,             \* position of the single thread of control
    page,           \* fetchRepositoryNames: page
    hasNextPage,    \* fetchRepositoryNames: hasNextPage (truthiness)
    allRepoNames,   \* fetchRepositoryNames: allRepoNames
    requests,       \* history: the response to each listing request issued
    REPO_NAMES,     \* main: REPO_NAMES
    priorDir,       \* history: OUTPUT_DIR as the run found it
    dirExists,      \* filesystem: OUTPUT_DIR exists
    files,          \* filesystem: names of the files in OUTPUT_DIR
    browser,        \* main: browser ("undefined", "open", "closed")
    launches,       \* history: successful puppeteer.launch calls
    closes,         \* history: browser.close calls
    i,              \* main: position of the for-of loop in REPO_NAMES
    calls,          \* history: repoName of each processRepository call
    openPages,      \* browser: page contexts open, named by the call that opened them
    response,       \* processRepository: response ("none" before goto returns)
    navs,           \* history: what page.goto produced in each call that reached it
    shots,          \* history: path of each page.screenshot call
    outcomes,       \* history: how each processRepository call ended
    exitCode        \* process exit code, -1 while running

fetchVars == << page, hasNextPage, allRepoNames, requests >>
fsVars == << dirExists, files >>
browserVars == << browser, launches, closes >>
procVars == << calls, openPages, response, navs, shots, outcomes >>
vars == << token, remote, pc, page, hasNextPage, allRepoNames, requests, REPO_NAMES,
           priorDir, dirExists, files, browser, launches, closes, i, calls,
           openPages, response, navs, shots, outcomes, exitCode >>

InitRun(served) ==
    /\ token \in Tokens
    /\ remote = served
    /\ pc = "fetch"
    /\ page = 0
    /\ hasNextPage = FALSE
    /\ allRepoNames = <<>>
    /\ requests = <<>>
    /\ REPO_NAMES = <<>>
    /\ dirExists \in BOOLEAN
    /\ files \in (IF dirExists THEN SUBSET PriorFiles ELSE { {} })
    /\ priorDir = [exists |-> dirExists, files |-> files]
    /\ browser = "undefined"
    /\ launches = 0
    /\ closes = 0
    /\ i = 0
    /\ calls = <<>>
    /\ openPages = {}
    /\ response = "none"
    /\ navs = <<>>
    /\ shots = <<>>
    /\ outcomes = <<>>
    /\ exitCode = -1

(* a run of the script against the target owner's repositories *)
Init == InitRun(OwnRecords)

(* a listing that also serves repositories of other owners *)
InitList == InitRun(Records)

(* ------------------------ fetchRepositoryNames ------------------------ *)
(* variant: the owner comparison ignores case *)
RECURSIVE FilterNames_anyCase(_)
FilterNames_anyCase(data) ==
    IF data = <<>> THEN <<>>
    ELSE LET repo == Head(data)
             rest == FilterNames_anyCase(Tail(data))
         IN  IF repo.owner \in { TARGET_ORG, "dapalms1" } /\ repo.name # CATALOG_NAME
             THEN <<repo.name>> \o rest
             ELSE rest

(* .filter(owner.login === TARGET_ORG).filter(name !== 'Catalog_of_Repos') *)
(* .map(repo => repo.name)                                                 *)
RECURSIVE FilterNames(_)
FilterNames(data) ==
    IF data = <<>> THEN <<>>
    ELSE LET repo == Head(data)
             rest == FilterNames(Tail(data))
         IN  IF repo.owner = TARGET_ORG /\ repo.name # CATALOG_NAME
             THEN <<repo.name>> \o rest
             ELSE rest

(* variant: the credential check is missing *)
F_checkToken_unchecked ==
    /\ pc = "fetch"
    /\ allRepoNames' = <<>>
    /\ page' = 1
    /\ hasNextPage' = TRUE
    /\ pc' = "fetch_loop"
    /\ UNCHANGED << requests, REPO_NAMES >>
    /\ UNCHANGED << token, remote, priorDir, fsVars, browserVars, i, procVars, exitCode >>

(* lines 43-51: the credential check and the loop's initial state *)
F_checkToken ==
    /\ pc = "fetch"
    /\ IF Falsy(token)
       THEN /\ REPO_NAMES' = <<>>
            /\ pc' = "main_check"
            /\ UNCHANGED fetchVars
       ELSE /\ allRepoNames' = <<>>
            /\ page' = 1
            /\ hasNextPage' = TRUE
            /\ pc' = "fetch_loop"
            /\ UNCHANGED << requests, REPO_NAMES >>
    /\ UNCHANGED << token, remote, priorDir, fsVars, browserVars, i, procVars, exitCode >>

(* lines 53-90: one iteration of the while loop, for the response r *)
F_page(r) ==
    /\ requests' = Append(requests, [page |-> page, resp |-> r])
    /\ IF r.thrown \/ ~r.ok \/ r.json # "array"
       THEN \* catch (lines 86-89)
            /\ hasNextPage' = FALSE
            /\ UNCHANGED << allRepoNames, page >>
       ELSE /\ hasNextPage' = HasNextMarker(r.link)
            /\ allRepoNames' = allRepoNames \o FilterNames(r.data)
            /\ page' = page + 1

F_iteration ==
    /\ pc = "fetch_loop"
    /\ hasNextPage
    /\ \E r \in Responses(page, remote \ UNION { Range(q.resp.data) : q \in Range(requests) }) :
           F_page(r)
    /\ UNCHANGED << token, remote, pc, REPO_NAMES, priorDir, fsVars, browserVars, i,
                    procVars, exitCode >>

(* lines 92-93 *)
F_return ==
    /\ pc = "fetch_loop"
    /\ ~hasNextPage
    /\ REPO_NAMES' = allRepoNames
    /\ pc' = "main_check"
    /\ UNCHANGED << token, remote, fetchVars, priorDir, fsVars, browserVars, i, procVars,
                    exitCode >>

(* -------------------------- processRepository ------------------------- *)
(* the page context of the running call *)
thisPage == Len(calls)
repoName == calls[Len(calls)]

mainFrame == << token, remote, fetchVars, REPO_NAMES, priorDir, browserVars, exitCode >>

(* processRepository returns to the for-of loop of main (line 191) *)
Return(outcome) ==
    /\ outcomes' = Append(outcomes, outcome)
    /\ i' = i + 1
    /\ pc' = "loop"

(* line 105 *)
PR_newPage ==
    /\ pc = "pr_newPage"
    /\ \/ /\ openPages' = openPages \cup { thisPage }
          /\ pc' = "pr_setViewport"
       \/ /\ pc' = "pr_catch"
          /\ UNCHANGED openPages
    /\ UNCHANGED << mainFrame, fsVars, i, calls, response, navs, shots, outcomes >>

(* line 108 *)
PR_setViewport ==
    /\ pc = "pr_setViewport"
    /\ pc' \in { "pr_goto", "pr_catch" }
    /\ UNCHANGED << mainFrame, fsVars, i, procVars >>

(* what `await page.goto(...)` can produce: an exception (navigation error, *)
(* 60 s timeout), null, a response that is not ok (404), an ok response    *)
GotoResults == { "throw", "null", "notok", "ok" }

(* lines 117-120 *)
PR_goto ==
    /\ pc = "pr_goto"
    /\ \E r \in GotoResults :
          /\ navs' = Append(navs, [name |-> repoName, result |-> r])
          /\ IF r = "throw"
             THEN pc' = "pr_catch" /\ UNCHANGED response
             ELSE pc' = "pr_validate" /\ response' = r
    /\ UNCHANGED << mainFrame, fsVars, i, calls, openPages, shots, outcomes >>

(* variant: only a missing response is rejected, the status is not looked at *)
PR_validate_noStatus ==
    /\ pc = "pr_validate"
    /\ IF response = "null"
       THEN \/ /\ openPages' = openPages \ { thisPage }
               /\ Return("skipped")
            \/ /\ pc' = "pr_catch"
               /\ UNCHANGED << openPages, outcomes, i >>
       ELSE /\ pc' = "pr_screenshot"
            /\ UNCHANGED << openPages, outcomes, i >>
    /\ UNCHANGED << mainFrame, fsVars, calls, response, navs, shots >>

(* lines 122-127: !response || !response.ok() closes the page and returns *)
PR_validate ==
    /\ pc = "pr_validate"
    /\ IF response # "ok"
       THEN \/ /\ openPages' = openPages \ { thisPage }
               /\ Return("skipped")
            \/ \* page.close() throws
               /\ pc' = "pr_catch"
               /\ UNCHANGED << openPages, outcomes, i >>
       ELSE /\ pc' = "pr_screenshot"
            /\ UNCHANGED << openPages, outcomes, i >>
    /\ UNCHANGED << mainFrame, fsVars, calls, response, navs, shots >>

(* lines 132-147: the settle delay, then page.screenshot({ path }); a      *)
(* screenshot that throws may or may not have created the file             *)
PR_screenshot ==
    /\ pc = "pr_screenshot"
    /\ shots' = Append(shots, outputPath(repoName))
    /\ \/ /\ files' = files \cup { outputPath(repoName) }
          /\ pc' = "pr_close"
       \/ /\ files' \in { files, files \cup { outputPath(repoName) } }
          /\ pc' = "pr_catch"
    /\ UNCHANGED << mainFrame, dirExists, i, calls, openPages, response, navs, outcomes >>

(* lines 149-150 *)
PR_close ==
    /\ pc = "pr_close"
    /\ \/ /\ openPages' = openPages \ { thisPage }
          /\ Return("captured")
       \/ \* page.close() throws
          /\ pc' = "pr_catch"
          /\ UNCHANGED << openPages, outcomes, i >>
    /\ UNCHANGED << mainFrame, fsVars, calls, response, navs, shots >>

(* variant: the catch block rethrows to main *)
PR_catch_rethrow ==
    /\ pc = "pr_catch"
    /\ outcomes' = Append(outcomes, "errored")
    /\ pc' = "main_catch"
    /\ UNCHANGED << mainFrame, fsVars, i, calls, openPages, response, navs, shots >>

(* lines 152-154: the catch block logs and the function returns *)
PR_catch ==
    /\ pc = "pr_catch"
    /\ Return("errored")
    /\ UNCHANGED << mainFrame, fsVars, calls, openPages, response, navs, shots >>

(* ---------------------------- removeDirectory ------------------------- *)
(* lines 22-33: fs.rm(recursive, force) either removes the tree or throws   *)
(* after removing any part of it; the catch swallows the exception          *)
removeDirectory ==
    \/ /\ dirExists' = FALSE
       /\ files' = {}
    \/ /\ dirExists
       /\ dirExists' = TRUE
       /\ files' \in SUBSET files

(* -------------------------------- main -------------------------------- *)
procFrame == << calls, openPages, response, navs, shots, outcomes >>

(* variant: no early return on an empty list *)
M_checkEmpty_noReturn ==
    /\ pc = "main_check"
    /\ pc' = "rm"
    /\ UNCHANGED exitCode
    /\ UNCHANGED << token, remote, fetchVars, REPO_NAMES, priorDir, fsVars, browserVars, i,
                    procFrame >>

(* lines 165-168 *)
M_checkEmpty ==
    /\ pc = "main_check"
    /\ IF Len(REPO_NAMES) = 0
       THEN pc' = "done" /\ exitCode' = 0
       ELSE pc' = "rm" /\ UNCHANGED exitCode
    /\ UNCHANGED << token, remote, fetchVars, REPO_NAMES, priorDir, fsVars, browserVars, i,
                    procFrame >>

(* line 173 *)
M_removeDirectory ==
    /\ pc = "rm"
    /\ removeDirectory
    /\ pc' = "mkdir"
    /\ UNCHANGED << token, remote, fetchVars, REPO_NAMES, priorDir, browserVars, i, procFrame,
                    exitCode >>

(* line 174: fs.mkdir(recursive) succeeds on an existing directory *)
M_mkdir ==
    /\ pc = "mkdir"
    /\ \/ dirExists' = TRUE /\ pc' = "launch"
       \/ UNCHANGED dirExists /\ pc' = "main_catch"
    /\ UNCHANGED << token, remote, fetchVars, REPO_NAMES, priorDir, files, browserVars, i,
                    procFrame, exitCode >>

(* lines 178-186 *)
M_launch ==
    /\ pc = "launch"
    /\ \/ /\ browser' = "open"
          /\ launches' = launches + 1
          /\ i' = 1
          /\ pc' = "loop"
       \/ /\ pc' = "main_catch"
          /\ UNCHANGED << browser, launches, i >>
    /\ UNCHANGED << token, remote, fetchVars, REPO_NAMES, priorDir, fsVars, closes, procFrame,
                    exitCode >>

(* lines 189-192: the for-of loop calls processRepository with the next name *)
M_loop ==
    /\ pc = "loop"
    /\ IF i <= Len(REPO_NAMES)
       THEN /\ calls' = Append(calls, REPO_NAMES[i])
            /\ response' = "none"
            /\ pc' = "pr_newPage"
       ELSE /\ pc' = "finally"
            /\ UNCHANGED << calls, response >>
    /\ UNCHANGED << mainFrame, fsVars, i, openPages, navs, shots, outcomes >>

(* lines 194-196: process.exit(1) ends the process; finally does not run *)
M_catch ==
    /\ pc = "main_catch"
    /\ pc' = "exited"
    /\ exitCode' = 1
    /\ UNCHANGED << token, remote, fetchVars, REPO_NAMES, priorDir, fsVars, browserVars, i,
                    procFrame >>

(* variant: the teardown does not close the browser *)
M_finally_noClose ==
    /\ pc = "finally"
    /\ exitCode' = 0
    /\ pc' = "done"
    /\ UNCHANGED << closes, browser, openPages >>
    /\ UNCHANGED << token, remote, fetchVars, REPO_NAMES, priorDir, fsVars, launches, i,
                    calls, response, navs, shots, outcomes >>

(* lines 197-204: browser.close() closes every page context with the       *)
(* browser; if it throws, main's promise rejects and the process fails     *)
M_finally ==
    /\ pc = "finally"
    /\ IF browser # "undefined"
       THEN /\ closes' = closes + 1
            /\ \/ /\ browser' = "closed"
                  /\ openPages' = {}
                  /\ exitCode' = 0
               \/ /\ UNCHANGED << browser, openPages >>
                  /\ exitCode' = 1
       ELSE /\ exitCode' = 0
            /\ UNCHANGED << closes, browser, openPages >>
    /\ pc' = "done"
    /\ UNCHANGED << token, remote, fetchVars, REPO_NAMES, priorDir, fsVars, launches, i,
                    calls, response, navs, shots, outcomes >>

(* ------------------------------ behaviours ---------------------------- *)
Next ==
    \/ F_checkToken
    \/ F_iteration
    \/ F_return
    \/ M_checkEmpty
    \/ M_removeDirectory
    \/ M_mkdir
    \/ M_launch
    \/ M_loop
    \/ PR_newPage
    \/ PR_setViewport
    \/ PR_goto
    \/ PR_validate
    \/ PR_screenshot
    \/ PR_close
    \/ PR_catch
    \/ M_catch
    \/ M_finally

Spec == Init /\ [][Next]_vars

(* fetchRepositoryNames alone, against the full listing *)
NextList ==
    \/ F_checkToken
    \/ F_iteration
    \/ F_return

SpecList == InitList /\ [][NextList]_vars

(* ------------------------------ properties ---------------------------- *)
Terminal == { "done", "exited" }
InProcessRepository ==
    pc \in { "pr_newPage", "pr_setViewport", "pr_goto", "pr_validate",
             "pr_screenshot", "pr_close", "pr_catch" }

IsPrefix(s, t) == Len(s) <= Len(t) /\ \A k \in 1..Len(s) : s[k] = t[k]
NoRepeat(s) == \A k, l \in 1..Len(s) : s[k] = s[l] => k = l

(* C1: once the capture loop runs, the names passed to processRepository    *)
(* are a prefix of REPO_NAMES in list order, each call returns to the loop, *)
(* the process does not exit inside the loop, and when the run is over      *)
(* every name was passed exactly once, whatever the outcomes were.          *)
C1_EveryNameProcessed ==
    /\ IsPrefix(calls, REPO_NAMES)
    /\ launches = 1 =>
          /\ pc \notin { "main_catch", "exited" }
          /\ InProcessRepository => Len(calls) = i /\ Len(outcomes) = i - 1
          /\ pc = "loop" => Len(calls) = i - 1 /\ Len(outcomes) = i - 1
          /\ pc \in { "finally", "done" } =>
                calls = REPO_NAMES /\ Len(outcomes) = Len(REPO_NAMES)

C1_Witness ==
    /\ pc = "done"
    /\ Len(REPO_NAMES) = 2
    /\ calls = REPO_NAMES
    /\ Len(navs) >= 1 /\ navs[1].name = REPO_NAMES[1] /\ navs[1].result = "throw"
    /\ outcomes[1] = "errored"
    /\ outcomes[2] = "captured"

(* C2: the browser is launched at most once and before any                  *)
(* processRepository call, browser.close is called at most once and only    *)
(* after the last call returned (nothing runs after it), and a run that     *)
(* launched the browser ends with exactly one close.                        *)
C2_BrowserLifecycle ==
    /\ launches <= 1
    /\ closes <= 1
    /\ Len(calls) > 0 => launches = 1
    /\ closes = 1 =>
          /\ launches = 1
          /\ pc = "done"
          /\ calls = REPO_NAMES
          /\ Len(outcomes) = Len(calls)
    /\ (pc \in Terminal /\ launches = 1) => closes = 1

C2_Witness ==
    /\ pc = "done"
    /\ closes = 1
    /\ Len(outcomes) = 2
    /\ outcomes[1] = "errored"
    /\ outcomes[2] = "skipped"

(* C3: every page context a processRepository call opened is closed by the  *)
(* time the call has returned: an open page context belongs to the call     *)
(* that is still running.                                                   *)
C3_PageClosedOnReturn ==
    \A k \in openPages : InProcessRepository /\ k = thisPage

(* C4: when the first processRepository call is made the output directory   *)
(* exists and is empty, and after a run in which every repository was       *)
(* captured it holds exactly one <name>.png per repository.                 *)
C4_FreshDirectory ==
    /\ (pc = "pr_newPage" /\ Len(calls) = 1) => dirExists /\ files = {}
    /\ (pc = "done" /\ launches = 1 /\ \A k \in 1..Len(outcomes) : outcomes[k] = "captured") =>
          files = { outputPath(REPO_NAMES[k]) : k \in 1..Len(REPO_NAMES) }

(* C5: no screenshot is taken for a name whose navigation returned no       *)
(* response or a non-successful one; every screenshot is for a name whose   *)
(* navigation returned a successful response; no path is written twice; the *)
(* files that appear in the directory are those of the screenshots.         *)
C5_OnlySuccessfulCaptured ==
    /\ \A k \in 1..Len(navs) :
          navs[k].result # "ok" => outputPath(navs[k].name) \notin Range(shots)
    /\ \A w \in 1..Len(shots) :
          \E k \in 1..Len(navs) :
              navs[k].result = "ok" /\ shots[w] = outputPath(navs[k].name)
    /\ NoRepeat(shots)
    /\ files \ priorDir.files \subseteq Range(shots)

C5_Witness ==
    /\ pc = "done"
    /\ Len(navs) = 2
    /\ navs[1].result = "notok"
    /\ navs[2].result = "ok"
    /\ shots = << outputPath(navs[2].name) >>
    /\ outputPath(navs[2].name) \in files
    /\ outputPath(navs[1].name) \notin files

(* C6: with the credential absent no listing request is issued, the result  *)
(* is empty, and main ends with exit code 0 without a browser launch, a     *)
(* processRepository call or a navigation.                                  *)
C6_NoCredential ==
    Falsy(token) =>
        /\ requests = <<>>
        /\ REPO_NAMES = <<>>
        /\ launches = 0
        /\ calls = <<>>
        /\ navs = <<>>
        /\ pc \in { "fetch", "main_check", "done" }
        /\ pc = "done" => exitCode = 0

C6_Witness ==
    /\ token = <<>>
    /\ pc = "done"
    /\ exitCode = 0

(* a listing request whose page was fetched and decoded without error *)
PageSucceeded(q) == ~q.resp.thrown /\ q.resp.ok /\ q.resp.json = "array"

(* the records of the pages of the history that succeeded, in order *)
RECURSIVE ServedRecords(_)
ServedRecords(reqs) ==
    IF reqs = <<>> THEN <<>>
    ELSE ServedRecords(SubSeq(reqs, 1, Len(reqs) - 1)) \o
         (IF PageSucceeded(reqs[Len(reqs)]) THEN reqs[Len(reqs)].resp.data ELSE <<>>)

Qualifies(rec) == rec.owner = "DapaLMS1" /\ rec.name # "Catalog_of_Repos"

NamesOf(recs) == [ k \in 1..Len(recs) |-> recs[k].name ]

(* C7: the names collected, and the result returned, are exactly the names  *)
(* of the records of the successfully fetched pages, in page and record     *)
(* order, whose owner is 'DapaLMS1' and whose name is not                   *)
(* 'Catalog_of_Repos'; a failed page adds nothing and removes nothing.      *)
C7_FilteredNames ==
    /\ pc = "fetch_loop" =>
          allRepoNames = NamesOf(SelectSeq(ServedRecords(requests), Qualifies))
    /\ (pc = "main_check" /\ ~Falsy(token)) =>
          /\ REPO_NAMES = NamesOf(SelectSeq(ServedRecords(requests), Qualifies))
          /\ "Catalog_of_Repos" \notin Range(REPO_NAMES)
          /\ \A k \in 1..Len(REPO_NAMES) :
                Rec("DapaLMS1", REPO_NAMES[k]) \in Range(ServedRecords(requests))

C7_Witness ==
    /\ pc = "main_check"
    /\ Len(requests) = 2
    /\ ~PageSucceeded(requests[2])
    /\ requests[1].resp.data = << Rec("octocat", "A"), Rec("DapaLMS1", "B") >>
    /\ REPO_NAMES = << "B" >>

(* the HTTP request of a listing page succeeded *)
RequestSucceeded(q) == ~q.resp.thrown /\ q.resp.ok

(* the response's link header has a rel="next" marker *)
MarkedNext(q) == q.resp.link.present /\ "next" \in Range(q.resp.link.rels)

PagesInOrder == \A k \in 1..Len(requests) : requests[k].page = k

(* C8 as stated: pages 1, 2, 3, ... each at most once, and when the listing *)
(* is over page k+1 was requested if and only if the request for page k     *)
(* succeeded and its link header had a "next" marker.                       *)
C8_NextIffRequestSucceeded ==
    /\ PagesInOrder
    /\ pc = "main_check" =>
          \A k \in 1..Len(requests) :
              (k < Len(requests)) <=>
              (RequestSucceeded(requests[k]) /\ MarkedNext(requests[k]))

(* C8 amended: pages 1, 2, 3, ... each at most once; when the listing is    *)
(* over page k+1 was requested if and only if page k was fetched and        *)
(* decoded without error and its link header had a "next" marker; with a    *)
(* credential at least one request is issued; a page that failed is the     *)
(* last one requested.                                                      *)
C8_NextIffPageSucceeded ==
    /\ PagesInOrder
    /\ \A k \in 1..Len(requests) :
          k < Len(requests) =>
              PageSucceeded(requests[k]) /\ MarkedNext(requests[k])
    /\ pc = "main_check" =>
          /\ ~Falsy(token) => Len(requests) >= 1
          /\ \A k \in 1..Len(requests) :
                (k < Len(requests)) <=>
                (PageSucceeded(requests[k]) /\ MarkedNext(requests[k]))

C8_Witness ==
    /\ pc = "main_check"
    /\ Len(requests) = 2
    /\ PageSucceeded(requests[1])
    /\ MarkedNext(requests[1])
    /\ requests[2].page = 2

(* C9: at most one page context is open at any time. *)
C9_OnePageAtATime == Cardinality(openPages) <= 1

(* C10: while the list of names is empty, and after main returned on an     *)
(* empty list, the output directory is as the run found it, no directory    *)
(* operation or browser launch was reached, and main ends with exit code 0. *)
C10_EmptyListLeavesDirectory ==
    Len(REPO_NAMES) = 0 =>
        /\ dirExists = priorDir.exists
        /\ files = priorDir.files
        /\ launches = 0
        /\ pc \in { "fetch", "fetch_loop", "main_check", "done" }
        /\ pc = "done" => exitCode = 0

C10_Witness ==
    /\ pc = "done"
    /\ ~Falsy(token)
    /\ Len(requests) = 1
    /\ requests[1].resp.data = << Rec(TARGET_ORG, CATALOG_NAME) >>
    /\ PageSucceeded(requests[1])
    /\ REPO_NAMES = <<>>
    /\ priorDir.files # {}
    /\ files = priorDir.files

====
